---- MODULE Spec2Model ----
(***************************************************************************)
(* Entity store and entity handle of becsy (src/src/entity.ts).            *)
(*                                                                         *)
(* A Uint32Array word is modelled as the set of its set bit positions      *)
(* (a subset of 0..31): `a & b` is intersection, `a | b` is union,         *)
(* `a & ~b` is set difference and `a !== 0` is non-emptiness.              *)
(***************************************************************************)
EXTENDS Integers, Sequences, FiniteSets, TLC

\* ------------------------------------------------------------------------
\* Configuration of the store under verification
\* ------------------------------------------------------------------------

\* maxEntities argument of the Entities constructor
MaxEntities == 2

\* number of registered component types (types.length)
NumTypes == 64

\* number of API calls explored in one behaviour of Spec
MaxCalls == 3

\* number of API calls explored in one behaviour of SpecAlloc
MaxAllocCalls == 6

\* number of mask-builder calls explored in one behaviour of SpecMask
MaxMaskCalls == 5

\* number of Pool calls explored in one behaviour of SpecPool
MaxPoolCalls == 6

\* largest initialSize a Pool is constructed with
MaxInitialSize == 2

\* number of API calls explored in one behaviour of SpecRefs
MaxRefCalls == 4

\* number of coroutines that are started in one behaviour of SpecCo
MaxCoroutines == 3

\* largest argument that a generator passes to waitForFrames
MaxWaitFrames == 2

\* number of execute() calls (frames) in one behaviour of SpecFrames
MaxFrames == 3

\* number of execute() calls in one behaviour of SpecCo
MaxExecutes == 2

\* number of API calls explored in one behaviour of SpecIter
MaxIterCalls == 5

\* width of a flag word: Math.ceil(this.controllers.size / 32)
BitsPerWord == 32

\* this.maxNum = maxEntities + 1
maxNum == MaxEntities + 1

\* this.stride = Math.ceil(this.controllers.size / 32)
stride == (NumTypes + BitsPerWord - 1) \div BitsPerWord

\* registered component types, named by their componentId
Types == 0 .. (NumTypes - 1)

\* the component types the explored callers use: the first two of word 0
\* and the last registered one
UsedTypes == {0, 1, NumTypes - 1}

\* component types whose schema declares a Type.ref field
RefTypes == {0}

Slots == 1 .. MaxEntities

WordIndexes == 0 .. (maxNum * stride - 1)

\* most significant bit of a word, the sign bit of a JS int32
SignBit == BitsPerWord - 1

\* Elements of a mask (number[]) are JS values: undefined (an array hole) or
\* a number, given by the bits of its 32-bit pattern and by its sign (a
\* bitwise result is an int32; a literal such as 0xffffffff is positive).
Undefined == [tag |-> "undefined", bits |-> {}, neg |-> FALSE]

\* the int32 result of a bitwise operator whose bit pattern is b
Int32(b) == [tag |-> "number", bits |-> b, neg |-> SignBit \in b]

\* ToInt32 of a mask element, as a bit pattern (undefined coerces to 0)
ToBits(w) == w.bits

\* dispatcher.rwMasks is undefined (active = FALSE) when no system's masks
\* are installed, else the executing system's {read, write}
NoMasks == [active |-> FALSE, read |-> <<>>, write |-> <<>>]

RwMasks(read, write) == [active |-> TRUE, read |-> read, write |-> write]

\* ------------------------------------------------------------------------
\* Controller metadata
\* ------------------------------------------------------------------------

\* ctrl.flagOffset: index of the word holding the type's bit
flagOffset(type) == type \div BitsPerWord

\* ctrl.flagMask: the type's bit within its word
flagMask(type) == {type % BitsPerWord}

\* getFields(type).some(field => field.type === Type.ref)
\* values of component fields
Null == [tag |-> "null", v |-> 0]

EntityRef(id) == [tag |-> "entity", v |-> id]

Number(n) == [tag |-> "number", v |-> n]

\* Entities.getFields: the schema of a type. The types with a reference
\* have two of them and a number, the second type has a number and the
\* others have no field
getFields(type) ==
  IF type \in RefTypes
    THEN <<[name |-> "parent", type |-> "ref"],
           [name |-> "count", type |-> "int32"],
           [name |-> "target", type |-> "ref"]>>
  ELSE IF type = 1 THEN <<[name |-> "count", type |-> "int32"]>>
  ELSE <<>>

HasRefField(type) ==
  \E i \in 1..Len(getFields(type)) : getFields(type)[i].type = "ref"

\* the fields that the controllers store: (slot, type, field name)
FieldKeys ==
  UNION {{<<id, type, getFields(type)[i].name>> :
            i \in 1..Len(getFields(type))} : id \in Slots, type \in Types}

\* the value a field has when its component is initialised without values
defaultOf(field) == IF field.type = "ref" THEN Null ELSE Number(0)

RECURSIVE initFields(_, _, _, _)
\* Controller.init(id, undefined): every field of the component gets its
\* default
initFields(fld, id, type, i) ==
  IF i > Len(getFields(type)) THEN fld
  ELSE LET field == getFields(type)[i]
       IN initFields([fld EXCEPT ![<<id, type, field.name>>] = defaultOf(field)],
                     id, type, i + 1)

\* Entities.initComponent
initComponent(fld, id, type) == initFields(fld, id, type, 1)

\* the fields of a store in which no component was given a value
ZeroFields ==
  [k \in FieldKeys |->
     LET fields == getFields(k[2])
         i == CHOOSE i \in 1..Len(fields) : fields[i].name = k[3]
     IN defaultOf(fields[i])]

\* an assignment to a field of the component that Controller.bind(id, true)
\* returned
setField(fld, id, type, name, value) ==
  [fld EXCEPT ![<<id, type, name>>] = value]

\* the record of an assignment or of clearFlag, in the order of execution
Assigned(id, type, name, old) ==
  [op |-> "assign", id |-> id, type |-> type, name |-> name, old |-> old]

Cleared(id, type) ==
  [op |-> "clearFlag", id |-> id, type |-> type, name |-> "", old |-> Null]

\* ------------------------------------------------------------------------
\* Masks (number[]), 0-based index i is element i + 1 of the sequence
\* ------------------------------------------------------------------------

extendMaskAndSetFlag(mask, type) ==
  LET off == flagOffset(type)
      \* mask.length = flagOffset + 1 leaves holes; mask.fill(0, mask.length,
      \* flagOffset) then has start > end and fills nothing
      grown == IF off >= Len(mask)
                 THEN [i \in 1 .. (off + 1) |->
                         IF i <= Len(mask) THEN mask[i] ELSE Undefined]
                 ELSE mask
  IN \* mask[flagOffset] |= ctrl.flagMask
     [grown EXCEPT ![off + 1] = Int32(ToBits(@) \cup flagMask(type))]

\* ((mask[ctrl.flagOffset] ?? 0) & ctrl.flagMask) !== 0
maskHasFlag(mask, type) ==
  LET off == flagOffset(type)
      w == IF off < Len(mask) THEN ToBits(mask[off + 1]) ELSE {}
  IN (w \cap flagMask(type)) # {}

RECURSIVE BuildMask(_, _)
\* a system's mask: extendMaskAndSetFlag applied to [] for each declared type
BuildMask(mask, types) ==
  IF types = {} THEN mask
  ELSE LET t == CHOOSE x \in types : \A y \in types : x <= y
       IN BuildMask(extendMaskAndSetFlag(mask, t), types \ {t})

\* the read and write sets declared by the systems that call into the
\* store: one reads every type and writes the first, one reads the last
\* type alone (its read mask has an unfilled low word) and writes every type
DeclaredSets == {<<UsedTypes, {0}>>, <<{NumTypes - 1}, UsedTypes>>}

\* values of dispatcher.rwMasks seen by the calls
RwChoices ==
  {NoMasks} \cup
  {RwMasks(BuildMask(<<>>, d[1]), BuildMask(<<>>, d[2])) : d \in DeclaredSets}

\* ------------------------------------------------------------------------
\* State
\* ------------------------------------------------------------------------

VARIABLES
  current,    \* Entities.current   : word index -> word
  previous,   \* Entities.previous  : word index -> word
  mutations,  \* Entities.mutations : word index -> word
  nextId,     \* Entities.nextId, the allocation cursor
  last,       \* the most recent call: its operation, its outcome (returned
              \* value or thrown error) and, for createEntity, the slot bound
  slotHist,   \* per slot: what happened since createEntity last returned it
  streak,     \* successful createEntity calls since the last remove, delete
              \* or step: all of them, and those given a non-empty list
  calls,      \* number of calls made so far
  built,      \* the mask (number[]) that the query layer is building
  fieldValues, \* the value the controllers store for each field of each
              \* slot's components
  effects,    \* the assignments to fields and the clearFlag calls that the
              \* last call on the store made, in the order it made them
  sup,        \* a Supervisor: its list of coroutines, the coroutines'
              \* fields, the position of a running execute() and a
              \* record of the coroutines the call has stepped
  pool,       \* a Pool: its list of objects and its cursor, next
  handed,     \* history of the pool: the objects that take() returned since
              \* the last reset(), those it returned before that, and the
              \* object the last take() or borrow() returned
  iter        \* the iterator being consumed: the closure of the object
              \* that iterateAll or iterate returned, the results the
              \* kernel wrote, and counts of what it has done so far

vars ==
  <<current, previous, mutations, nextId, last, slotHist, streak, calls,
    built, fieldValues, effects, sup, pool, handed, iter>>

ZeroBuffer == [i \in WordIndexes |-> {}]

\* an optional mask argument (number[] | undefined)
Omitted == [given |-> FALSE, words |-> <<>>]
Given(mask) == [given |-> TRUE, words |-> mask]

\* the positive and negative mask handed to a match call
MaskArgs(pos, neg) == [pos |-> pos, neg |-> neg]
NoArgs == MaskArgs(Omitted, Omitted)

\* the call made last: operation, slot, outcome and mask arguments
CallWith(op, id, res, args) == [op |-> op, id |-> id, res |-> res, args |-> args]
Call(op, id, res) == CallWith(op, id, res, NoArgs)

\* no iteration has been started
\*   kind        "none", "all" (iterateAll) or "pred" (iterate)
\*   filtered    what the kernel wrote to the scratch buffer, numResults
\*   i, id       the closure variables of the two iterators
\*   buf, pos, neg   the query: the predicate of iterate tests buf
\*   done        next() has returned {done: true}
\*   produced    elements produced so far
\*   binds       bind() calls made so far
\*   pending     flush() calls since the last element (or the start)
\*   gap         flush() calls between the last element and the one before
\*               it (or the start)
\*   matched     the slots that matchCurrent accepted when iterateAll was
\*               called, in ascending order
NoIter ==
  [kind |-> "none", filtered |-> <<>>, numResults |-> 0, i |-> -1, id |-> 1,
   buf |-> "current", pos |-> Omitted, neg |-> Omitted, done |-> FALSE,
   produced |-> 0, binds |-> 0, pending |-> 0, gap |-> 0, matched |-> <<>>]

\* ------------------------------------------------------------------------
\* Pool
\* ------------------------------------------------------------------------

\* new Class(): an object that is none of those the pool holds
newClass(list) ==
  CHOOSE o \in 1..(Len(list) + 1) : \A i \in 1..Len(list) : list[i] # o

RECURSIVE fillList(_, _)
fillList(list, initialSize) ==
  IF Len(list) = initialSize THEN list
  ELSE fillList(Append(list, newClass(list)), initialSize)

\* new Pool(Class, initialSize)
Pool(initialSize) == [list |-> fillList(<<>>, initialSize), next |-> 0]

\* the list after "if (this.next === this.list.length) this.list.push(...)"
pushIfFull(p) ==
  IF p.next = Len(p.list) THEN Append(p.list, newClass(p.list)) ELSE p.list

takeKeepsCursor(p) ==
  LET list == pushIfFull(p)
  IN [pool |-> [list |-> list, next |-> p.next], value |-> list[p.next + 1]]

take(p) ==
  LET list == pushIfFull(p)
  IN [pool |-> [list |-> list, next |-> p.next + 1],
      value |-> list[p.next + 1]]

borrow(p) ==
  LET list == pushIfFull(p)
  IN [pool |-> [list |-> list, next |-> p.next], value |-> list[p.next + 1]]

reset(p) == [p EXCEPT !.next = 0]

NoneHanded == [taken |-> <<>>, before |-> <<>>, value |-> 0]

\* ------------------------------------------------------------------------
\* Supervisor and CoroutineImpl
\* ------------------------------------------------------------------------

\* the coroutines are numbered in the order they are constructed
CoroutineIds == 1..MaxCoroutines

\* new CoroutineImpl(system, generator); blocker is the coroutine it waits
\* on (0 when it waits on nothing), error is "none", "error" or "canceled";
\* thrown is the error that __step last passed to generator.throw ("none"
\* when it never did), canceledAt where its generator stood when cancel()
\* marked it: "yield" (suspended or not yet run), "end" (finished) or "none".
\* frames is the counter of the waitForFrames object it waits on (0 when its
\* blocker is none), waitN and waitAt the argument of that waitForFrames call
\* and the frame it was yielded in
CoroutineImpl ==
  [done |-> FALSE, awaited |-> FALSE, error |-> "none", blocker |-> 0,
   thrown |-> "none", canceledAt |-> "none", frames |-> 0, waitN |-> 0,
   waitAt |-> 0]

\* CoroutineImpl.waitForFrames: the call throws, or returns an object whose
\* isReady() counts frames down
waitForFrames(frames) ==
  IF frames <= 0 THEN [rejected |-> TRUE, frames |-> 0]
  ELSE [rejected |-> FALSE, frames |-> frames]

\* new Supervisor(system), and no execute() running; coroutines is the list
\* (of numbers of coroutines), objs the fields of each coroutine constructed,
\* made their count; processedLength, endIndex and i are the locals of
\* execute(), pc its position; frame counts the execute() calls (one per
\* frame); atStart is the list when the running (or last)
\* execute() was called, started the coroutines started since, stepped those
\* whose __step it called, in order, resumed those whose generator __step
\* resumed, outcome how the call ended
Supervisor ==
  [coroutines |-> <<>>, objs |-> [c \in CoroutineIds |-> CoroutineImpl],
   made |-> 0, pc |-> "idle", processedLength |-> 0, endIndex |-> 0, i |-> 0,
   frame |-> 0,
   atStart |-> <<>>, started |-> <<>>, stepped |-> <<>>, resumed |-> <<>>,
   outcome |-> "none"]

\* Supervisor.start
start(s) ==
  LET coroutine == s.made + 1
  IN [s EXCEPT !.made = coroutine,
               !.objs[coroutine] = CoroutineImpl,
               !.coroutines = Append(@, coroutine),
               !.started = IF s.pc = "idle" THEN @ ELSE Append(@, coroutine)]

RECURSIVE cancel(_, _)
\* CoroutineImpl.cancel
cancel(objs, c) ==
  IF objs[c].blocker # 0 THEN cancel(objs, objs[c].blocker)
  ELSE [objs EXCEPT ![c].error = "canceled", ![c].done = TRUE,
                    ![c].canceledAt = IF objs[c].done THEN "end" ELSE "yield"]

\* CoroutineImpl.__checkCancelation; fires tells whether a canceller
\* returns true
checkCancelation(objs, c, fires) ==
  IF ~objs[c].done /\ fires THEN cancel(objs, c) ELSE objs

\* __step resumes the generator of coroutine c with generator.throw
throwsInto(s, c) ==
  s.objs[c].blocker # 0 /\ s.objs[s.objs[c].blocker].error # "none"

Endings == {"yield", "return", "throw", "rethrow"}

\* the arguments that generators pass to waitForFrames
WaitArgs == -1..MaxWaitFrames

\* what the generator does when it is resumed: it may start a coroutine, and
\* then yields (the coroutine it started, when waits is TRUE), returns,
\* throws an error of its own or lets the error thrown into it escape;
\* forFrames is <<>> for a generator that does not call waitForFrames
Resumptions(s) ==
  {r \in [ends : Endings, starts : BOOLEAN, waits : BOOLEAN,
          forFrames : {<<>>}] :
     /\ r.starts => s.made < MaxCoroutines
     /\ r.waits => (r.starts /\ r.ends = "yield")}

\* the same for generators that yield nothing or waitForFrames(n), return
\* or throw; forFrames is <<n>> for one that yields waitForFrames(n)
FrameResumptions ==
  {[ends |-> e, starts |-> FALSE, waits |-> FALSE, forFrames |-> <<>>] :
     e \in {"yield", "return", "throw"}} \cup
  {[ends |-> "yield", starts |-> FALSE, waits |-> FALSE, forFrames |-> <<n>>] :
     n \in WaitArgs}

\* CoroutineImpl.__step of coroutine c, whose generator does r if resumed;
\* the result is the supervisor after it and whether __step threw
stepCoroutine(s, c, r) ==
  LET co == s.objs[c]
      polled == ~co.done /\ co.frames > 0
      ready == IF co.frames > 0 THEN co.frames - 1 <= 0
               ELSE co.blocker = 0 \/ s.objs[co.blocker].done
      resumed == ~co.done /\ ready
      e == IF throwsInto(s, c) THEN s.objs[co.blocker].error ELSE "none"
      s0 == IF resumed
              THEN [s EXCEPT !.objs[c].thrown = IF e # "none" THEN e ELSE @,
                             !.resumed = Append(@, c),
                             !.objs[c].frames = 0,
                             !.objs[c].waitN = 0,
                             !.objs[c].waitAt = 0]
            ELSE IF polled THEN [s EXCEPT !.objs[c].frames = @ - 1]
            ELSE s
      s1 == IF resumed /\ r.starts THEN start(s0) ELSE s0
      child == s1.made
      waitable == IF r.forFrames = <<>> THEN waitForFrames(1)
                  ELSE waitForFrames(r.forFrames[1])
      ends == IF r.forFrames # <<>> /\ waitable.rejected THEN "throw"
              ELSE r.ends
      s2 == IF ~resumed THEN s1
            ELSE IF ends = "return"
              THEN [s1 EXCEPT !.objs[c].done = TRUE, !.objs[c].blocker = 0]
            ELSE IF ends \in {"throw", "rethrow"}
              THEN [s1 EXCEPT !.objs[c].done = TRUE,
                              !.objs[c].error =
                                 IF @ # "none" THEN @
                                 ELSE IF ends = "rethrow" THEN e
                                 ELSE "error",
                              !.objs[c].blocker = 0]
            ELSE IF r.waits
              THEN [s1 EXCEPT !.objs[c].blocker = child,
                              !.objs[child].awaited = TRUE]
            ELSE IF r.forFrames # <<>>
              THEN [s1 EXCEPT !.objs[c].blocker = 0,
                              !.objs[c].frames = waitable.frames,
                              !.objs[c].waitN = r.forFrames[1],
                              !.objs[c].waitAt = s.frame]
            ELSE [s1 EXCEPT !.objs[c].blocker = 0]
      after == s2.objs[c]
  IN [sup |-> s2,
      threw |-> after.error # "none"
                  /\ ~(after.awaited \/ after.error = "canceled")]

\* this.coroutines.splice(i, 1), i counted from 0
splice(list, i) == SubSeq(list, 1, i) \o SubSeq(list, i + 2, Len(list))

\* Supervisor.execute: the test of the while loop and, when it holds, the
\* statements up to the first for loop
whileTest(s) ==
  IF s.processedLength < Len(s.coroutines)
    THEN [s EXCEPT !.endIndex = s.processedLength,
                   !.processedLength = Len(s.coroutines),
                   !.i = Len(s.coroutines) - 1,
                   !.pc = "check"]
    ELSE [s EXCEPT !.pc = "idle", !.outcome = "returned"]

\* Supervisor.execute: the call, up to the first for loop
execute(s) ==
  whileTest([s EXCEPT !.processedLength = 0, !.atStart = s.coroutines,
                      !.frame = @ + 1,
                      !.started = <<>>, !.stepped = <<>>, !.resumed = <<>>,
                      !.outcome = "running"])

\* Supervisor.execute: one turn of the first for loop
checkTurn(s, fires) ==
  LET checked == [s EXCEPT !.objs = checkCancelation(@, s.coroutines[s.i + 1],
                                                     fires)]
  IN IF s.i - 1 >= s.endIndex THEN [checked EXCEPT !.i = s.i - 1]
     ELSE [checked EXCEPT !.i = Len(s.coroutines) - 1, !.pc = "step"]

stepTurnKeepsProcessedLength(s, r) ==
  LET coroutine == s.coroutines[s.i + 1]
      t == stepCoroutine(s, coroutine, r)
      noted == [t.sup EXCEPT !.stepped = Append(@, coroutine)]
  IN IF t.threw THEN [noted EXCEPT !.pc = "idle", !.outcome = "threw"]
     ELSE LET kept ==
                IF noted.objs[coroutine].done
                  THEN [noted EXCEPT !.coroutines = splice(@, s.i)]
                  ELSE noted
          IN IF s.i - 1 >= s.endIndex THEN [kept EXCEPT !.i = s.i - 1]
             ELSE whileTest(kept)

\* Supervisor.execute: one turn of the second for loop and, after the last
\* turn, the test of the while loop
stepTurn(s, r) ==
  LET coroutine == s.coroutines[s.i + 1]
      t == stepCoroutine(s, coroutine, r)
      noted == [t.sup EXCEPT !.stepped = Append(@, coroutine)]
  IN IF t.threw THEN [noted EXCEPT !.pc = "idle", !.outcome = "threw"]
     ELSE LET kept ==
                IF noted.objs[coroutine].done
                  THEN [noted EXCEPT !.coroutines = splice(@, s.i),
                                     !.processedLength = @ - 1]
                  ELSE noted
          IN IF s.i - 1 >= s.endIndex THEN [kept EXCEPT !.i = s.i - 1]
             ELSE whileTest(kept)

Init ==
  /\ current = ZeroBuffer
  /\ previous = ZeroBuffer
  /\ mutations = ZeroBuffer
  /\ nextId = 1
  /\ last = Call("none", 0, "none")
  /\ slotHist = [s \in Slots |-> "unused"]
  /\ streak = [any |-> 0, nonEmpty |-> 0]
  /\ calls = 0
  /\ built = <<>>
  /\ fieldValues = ZeroFields
  /\ effects = <<>>
  /\ sup = Supervisor
  /\ pool = Pool(0)
  /\ handed = NoneHanded
  /\ iter = NoIter

\* ------------------------------------------------------------------------
\* Entities: flag access
\* ------------------------------------------------------------------------

hasFlagIn(buf, id, type) ==
  (buf[id * stride + flagOffset(type)] \cap flagMask(type)) # {}

hasFlag(cur, id, type) == hasFlagIn(cur, id, type)

setFlag(cur, id, type) ==
  [cur EXCEPT ![id * stride + flagOffset(type)] = @ \cup flagMask(type)]

\* mutant: the whole word is cleared
clearFlagWholeWord(cur, id, type) ==
  [cur EXCEPT ![id * stride + flagOffset(type)] = {}]

clearFlag(cur, id, type) ==
  [cur EXCEPT ![id * stride + flagOffset(type)] = @ \ flagMask(type)]

markMutated(mut, id, type) ==
  [mut EXCEPT ![id * stride + flagOffset(type)] = @ \cup flagMask(type)]

\* mutant: only the first word of the slot's range is inspected
isAllocatedFirstWord(id, entities) == entities[id * stride] # {}

isAllocated(id, entities) ==
  \E offset \in 0 .. (stride - 1) : entities[id * stride + offset] # {}

\* ------------------------------------------------------------------------
\* Entity: the handle's operations on slot id, under the caller's rwMasks.
\* Each takes the buffers st = [cur, mut] and yields [cur, mut, res], where
\* res is the returned value or the thrown error.
\* ------------------------------------------------------------------------

Errors == {"capability", "duplicate", "missing", "capacity", "badargs"}

Outcome(cur, mut, res) == [cur |-> cur, mut |-> mut, res |-> res]

\* what a call that reaches the components' fields leaves: the buffers, the
\* result, the stored fields and the record of its assignments
Effect(cur, mut, res, fld, log) ==
  [cur |-> cur, mut |-> mut, res |-> res, fld |-> fld, log |-> log]

\* a call that ends with st unchanged and result res
Ends(st, res) == Effect(st.cur, st.mut, res, st.fld, st.log)

\* mutant: the read mask is consulted for every access
checkMaskReadOnly(rw, type, write) ==
  \/ ~rw.active
  \/ maskHasFlag(rw.read, type)

\* Entity.__checkMask: TRUE when the access is allowed (nothing is thrown)
checkMask(rw, type, write) ==
  \/ ~rw.active
  \/ maskHasFlag(IF write THEN rw.write ELSE rw.read, type)

\* Entity.has
has(st, id, type, rw) ==
  IF ~checkMask(rw, type, FALSE) THEN "capability"
  ELSE IF hasFlag(st.cur, id, type) THEN "true" ELSE "false"

\* Entity.__get
get(st, id, type, rw, allowWrite) ==
  IF ~checkMask(rw, type, allowWrite) THEN "capability"
  ELSE LET h == has(st, id, type, rw)
       IN IF h = "capability" THEN "capability"
          ELSE IF h = "false" THEN "undefined"
          ELSE "component"

\* Entity.read
read(st, id, type, rw) ==
  LET component == get(st, id, type, rw, FALSE)
  IN Outcome(st.cur, st.mut,
             IF component = "undefined" THEN "missing" ELSE component)

\* Entity.readIfPresent
readIfPresent(st, id, type, rw) ==
  Outcome(st.cur, st.mut, get(st, id, type, rw, FALSE))

\* mutant: the mutation bit is set before the component is looked up
writeMarksFirst(st, id, type, rw) ==
  LET component == get(st, id, type, rw, TRUE)
      marked == markMutated(st.mut, id, type)
  IN IF component = "capability" THEN Outcome(st.cur, marked, "capability")
     ELSE IF component = "undefined" THEN Outcome(st.cur, marked, "missing")
     ELSE Outcome(st.cur, marked, "component")

\* mutant: a missing component is reported as absent instead of thrown
writeNoThrow(st, id, type, rw) ==
  LET component == get(st, id, type, rw, TRUE)
  IN IF component = "capability" THEN Outcome(st.cur, st.mut, "capability")
     ELSE IF component = "undefined" THEN Outcome(st.cur, st.mut, "undefined")
     ELSE Outcome(st.cur, markMutated(st.mut, id, type), "component")

\* Entity.write
write(st, id, type, rw) ==
  LET component == get(st, id, type, rw, TRUE)
  IN IF component = "capability" THEN Outcome(st.cur, st.mut, "capability")
     ELSE IF component = "undefined" THEN Outcome(st.cur, st.mut, "missing")
     ELSE Outcome(st.cur, markMutated(st.mut, id, type), "component")

RECURSIVE nullRefsEveryField(_, _, _, _, _)
nullRefsEveryField(fld, log, id, type, i) ==
  IF i > Len(getFields(type)) THEN [fld |-> fld, log |-> log]
  ELSE LET field == getFields(type)[i]
           key == <<id, type, field.name>>
       IN nullRefsEveryField(
            setField(fld, id, type, field.name, Null),
            Append(log, Assigned(id, type, field.name, fld[key])),
            id, type, i + 1)

RECURSIVE nullRefs(_, _, _, _, _)
\* Entity.__deindexOutboundRefs: the loop that assigns null to the
\* component's fields of Type.ref, from field i on
nullRefs(fld, log, id, type, i) ==
  IF i > Len(getFields(type)) THEN [fld |-> fld, log |-> log]
  ELSE LET field == getFields(type)[i]
           key == <<id, type, field.name>>
       IN IF field.type = "ref"
            THEN nullRefs(setField(fld, id, type, field.name, Null),
                          Append(log, Assigned(id, type, field.name, fld[key])),
                          id, type, i + 1)
            ELSE nullRefs(fld, log, id, type, i + 1)

\* Entity.__deindexOutboundRefs
deindexOutboundRefs(st, id, type, rw) ==
  IF HasRefField(type)
    THEN LET w == write(st, id, type, rw)
         IN IF w.res \in Errors
              THEN Effect(w.cur, w.mut, w.res, st.fld, st.log)
              ELSE LET n == nullRefs(st.fld, st.log, id, type, 1)
                   IN Effect(w.cur, w.mut, "ok", n.fld, n.log)
    ELSE Ends(st, "ok")

\* Entity.__remove (the inbound-reference wipe is an empty stub)
removeComponent(st, id, type, rw) ==
  LET d == deindexOutboundRefs(st, id, type, rw)
  IN IF d.res \in Errors THEN d
     ELSE Effect(clearFlag(d.cur, id, type), d.mut, "true", d.fld,
                 Append(d.log, Cleared(id, type)))

\* Entity.remove
remove(st, id, type, rw) ==
  IF ~checkMask(rw, type, TRUE) THEN Ends(st, "capability")
  ELSE IF ~hasFlag(st.cur, id, type) THEN Ends(st, "false")
  ELSE removeComponent(st, id, type, rw)

\* mutant: attaching a component also marks it mutated
addMarksMutated(st, id, type, rw) ==
  IF ~checkMask(rw, type, TRUE) THEN Outcome(st.cur, st.mut, "capability")
  ELSE LET h == has(st, id, type, rw)
       IN IF h = "capability" THEN Outcome(st.cur, st.mut, "capability")
          ELSE IF h = "true" THEN Outcome(st.cur, st.mut, "duplicate")
          ELSE Outcome(setFlag(st.cur, id, type),
                       markMutated(st.mut, id, type), "ok")

\* Entity.add (initComponent only touches the controller's field storage)
add(st, id, type, rw) ==
  IF ~checkMask(rw, type, TRUE) THEN Outcome(st.cur, st.mut, "capability")
  ELSE LET h == has(st, id, type, rw)
       IN IF h = "capability" THEN Outcome(st.cur, st.mut, "capability")
          ELSE IF h = "true" THEN Outcome(st.cur, st.mut, "duplicate")
          ELSE Outcome(setFlag(st.cur, id, type), st.mut, "ok")

RECURSIVE deleteFrom(_, _, _, _)
\* Entity.delete: the loop over this.__entities.types, from type on; the
\* types that the slot lacks are passed over (continue)
deleteFrom(st, id, type, rw) ==
  LET present == {t \in type..(NumTypes - 1) : hasFlag(st.cur, id, t)}
  IN IF present = {} THEN Ends(st, "ok")
     ELSE LET t == CHOOSE t \in present : \A u \in present : t <= u
          IN IF ~checkMask(rw, t, TRUE) THEN Ends(st, "capability")
             ELSE LET r == removeComponent(st, id, t, rw)
                  IN IF r.res \in Errors THEN r
                     ELSE deleteFrom(r, id, t + 1, rw)

\* mutant: the loop starts at the second registered type
deleteSkipsFirstType(st, id, rw) == deleteFrom(st, id, 1, rw)

delete(st, id, rw) == deleteFrom(st, id, 0, rw)

\* ------------------------------------------------------------------------
\* Entities.createEntity
\* ------------------------------------------------------------------------

\* mutant: the scan wraps to the reserved slot 0
NextSlotWrapsToZero(id) == IF id + 1 = maxNum THEN 0 ELSE id + 1

\* id += 1; if (id === this.maxNum) id = 1
NextSlot(id) == IF id + 1 = maxNum THEN 1 ELSE id + 1

\* mutant: the previous buffer is not consulted
IsFreeCurrentOnly(id, cur, prev) == ~isAllocated(id, cur)

\* mutant: the current buffer is not consulted
IsFreePreviousOnly(id, cur, prev) == ~isAllocated(id, prev)

\* the test of the scan: unallocated in current and in previous
IsFree(id, cur, prev) == ~isAllocated(id, cur) /\ ~isAllocated(id, prev)

RECURSIVE scan(_, _, _, _)
\* the while loop: the slot found starting at id, or 0 after a full wrap
scan(id, initial, cur, prev) ==
  IF IsFree(id, cur, prev) THEN id
  ELSE LET n == NextSlot(id)
       IN IF n = initial THEN 0 ELSE scan(n, initial, cur, prev)

\* elements of initialComponents: a component type (a function) or a value
TypeItem(t) == [kind |-> "type", type |-> t]
ValueItem == [kind |-> "value", type |-> 0]
IsFunction(item) == item.kind = "type"

RECURSIVE initLoop(_, _, _, _, _)
\* the for loop over initialComponents, from 1-based position i on
initLoop(st, id, list, i, rw) ==
  IF i > Len(list) THEN Outcome(st.cur, st.mut, "ok")
  ELSE IF ~IsFunction(list[i]) THEN Outcome(st.cur, st.mut, "badargs")
  ELSE LET hasValue == i + 1 <= Len(list) /\ ~IsFunction(list[i + 1])
           a == add(st, id, list[i].type, rw)
       IN IF a.res \in Errors THEN a
          ELSE initLoop(a, id, list, IF hasValue THEN i + 2 ELSE i + 1, rw)

\* result of createEntity: [id, cur, mut, res, next]; id is the slot the
\* handle was bound to (0 when the scan found none), next the new cursor
createEntity(cur, prev, mut, next, list, rw) ==
  LET id == scan(next, next, cur, prev)
  IN IF id = 0
       THEN [id |-> 0, cur |-> cur, mut |-> mut, res |-> "capacity",
             next |-> next]
       ELSE LET r == initLoop([cur |-> cur, mut |-> mut], id, list, 1, rw)
            IN [id |-> id, cur |-> r.cur, mut |-> r.mut, res |-> r.res,
                next |-> IF r.res \in Errors THEN next ELSE NextSlot(id)]

\* ------------------------------------------------------------------------
\* Entities.step
\* ------------------------------------------------------------------------

\* mutant: the mutation buffer is not cleared
stepKeepsMutations(cur, prev, mut) == [cur |-> cur, prev |-> cur, mut |-> mut]

\* this.previous.set(this.current); this.mutations.fill(0)
step(cur, prev, mut) == [cur |-> cur, prev |-> cur, mut |-> ZeroBuffer]

\* ------------------------------------------------------------------------
\* Entities.createFilledMask, Entities.match
\* ------------------------------------------------------------------------

\* the number literal 0xffffffff: all 32 bits, positive
FilledWord == [tag |-> "number", bits |-> 0..SignBit, neg |-> FALSE]

\* new Array(Math.ceil(size / 32)).fill(0xffffffff)
createFilledMask == [i \in 1..stride |-> FilledWord]

\* entities[index]: a word of the Uint32Array, undefined outside it
WordAt(entities, index) ==
  IF index \in DOMAIN entities THEN entities[index] ELSE {}

\* entities[offset + i] & maskByte: the int32 the operator & yields
BitAnd(word, maskByte) == Int32(word \cap ToBits(maskByte))

\* Entities.match: (entities[offset + i] & maskByte) !== maskByte fails the
\* positive mask, (entities[offset + i] & maskByte) !== 0 the negative one
match(id, entities, positiveMask, negativeMask) ==
  LET offset == id * stride
  IN /\ positiveMask.given =>
          \A i \in 1..Len(positiveMask.words) :
            BitAnd(WordAt(entities, offset + i - 1), positiveMask.words[i])
              = positiveMask.words[i]
     /\ negativeMask.given =>
          \A i \in 1..Len(negativeMask.words) :
            BitAnd(WordAt(entities, offset + i - 1), negativeMask.words[i])
              = Int32({})

matchCurrent(id, positiveMask, negativeMask) ==
  match(id, current, positiveMask, negativeMask)

matchPrevious(id, positiveMask, negativeMask) ==
  match(id, previous, positiveMask, negativeMask)

matchMutated(id, positiveMask, negativeMask) ==
  match(id, mutations, positiveMask, negativeMask)

\* ------------------------------------------------------------------------
\* Entities.iterateAll, Entities.iterate, the kernel of generateWasmModule
\* ------------------------------------------------------------------------

\* this.filtered[i] past the view's length
UndefinedId == -1

\* withMask?.[0] ?? 0, as the i32 parameter of the kernel
kernelParam(mask) ==
  IF mask.given /\ Len(mask.words) >= 1 THEN ToBits(mask.words[1]) ELSE {}

RECURSIVE kernelLoop(_, _, _, _, _)
\* the loop $top: $id and $currOffset / 4 both stand at word; the ids
\* stored so far are in found; the loop ends when $currOffset reaches
\* $segSize = maxNum * stride * 4
kernelLoop(cur, word, posMask, negMask, found) ==
  LET hit == /\ (cur[word] \cap posMask) = posMask
             /\ (cur[word] \cap negMask) = {}
      found2 == IF hit THEN Append(found, word) ELSE found
  IN IF word + 1 = maxNum * stride THEN found2
     ELSE kernelLoop(cur, word + 1, posMask, negMask, found2)

\* Entities.iterateAll: the kernel runs at once, the iterator starts at -1
iterateAll(cur, withMask, withoutMask) ==
  LET found == kernelLoop(cur, 1, kernelParam(withMask),
                          kernelParam(withoutMask), <<>>)
  IN [NoIter EXCEPT !.kind = "all", !.filtered = found,
                    !.numResults = Len(found),
                    !.pos = withMask, !.neg = withoutMask]

\* this.filtered[i]: a Uint32Array view of maxEntities words
filteredAt(it, i) ==
  IF i < maxNum - 1 THEN it.filtered[i + 1] ELSE UndefinedId

\* an element was produced after flushed calls of dispatcher.flush()
Produced(it, flushed) ==
  [it EXCEPT !.produced = @ + 1, !.binds = @ + 1,
             !.gap = it.pending + flushed, !.pending = 0]

\* the iterator is exhausted after flushed calls of dispatcher.flush()
Exhausted(it, flushed) ==
  [it EXCEPT !.done = TRUE, !.pending = @ + flushed]

\* mutant: flush() is called on every next(), the first included
nextAllFlushesFirst(it) ==
  LET flushed == 1
      i == it.i + 1
  IN IF i >= it.numResults
       THEN [it |-> Exhausted([it EXCEPT !.i = i], flushed),
             value |-> 0, done |-> TRUE]
       ELSE [it |-> Produced([it EXCEPT !.i = i], flushed),
             value |-> filteredAt(it, i), done |-> FALSE]

\* next() of the iterator of iterateAll
nextAll(it) ==
  LET flushed == IF it.i >= 0 THEN 1 ELSE 0
      i == it.i + 1
  IN IF i >= it.numResults
       THEN [it |-> Exhausted([it EXCEPT !.i = i], flushed),
             value |-> 0, done |-> TRUE]
       ELSE [it |-> Produced([it EXCEPT !.i = i], flushed),
             value |-> filteredAt(it, i), done |-> FALSE]

\* Entities.iterate: the iterator starts at id 1
iterate(buf, pos, neg) ==
  [NoIter EXCEPT !.kind = "pred", !.buf = buf, !.pos = pos, !.neg = neg]

\* the predicate handed to iterate: a match on one of the buffers
predicate(it, id, cur, prev, mut) ==
  match(id,
        IF it.buf = "current" THEN cur
        ELSE IF it.buf = "previous" THEN prev ELSE mut,
        it.pos, it.neg)

\* mutant: the predicate is not consulted
predLoopNoTest(it, id, cur, prev, mut) == id

RECURSIVE predLoop(_, _, _, _, _)
\* while (id < maxEntities && !predicate(id)) id++
predLoop(it, id, cur, prev, mut) ==
  IF id < maxNum /\ ~predicate(it, id, cur, prev, mut)
    THEN predLoop(it, id + 1, cur, prev, mut)
    ELSE id

\* next() of the iterator of iterate
nextPred(it, cur, prev, mut) ==
  LET flushed == 1
      id == predLoop(it, it.id, cur, prev, mut)
  IN IF id < maxNum
       THEN [it |-> Produced([it EXCEPT !.id = id + 1], flushed),
             value |-> id, done |-> FALSE]
       ELSE [it |-> Exhausted([it EXCEPT !.id = id], flushed),
             value |-> 0, done |-> TRUE]

\* ------------------------------------------------------------------------
\* History of each slot, kept for the claims about slot reuse
\*   "unused"      createEntity has not returned it yet
\*   "live"        returned by createEntity and not emptied since, or
\*                 allocated again after it was emptied
\*   "freedPrev"   its last component was removed while previous held it
\*   "freedFresh"  its last component was removed, previous did not hold it
\*   "stepped"     a step() has run since it was emptied from "freedPrev"
\*   "steppedFresh" a step() has run since it was emptied from "freedFresh"
\*   "recycled"    returned again from "stepped"
\*   "reusedPrev"  returned again from "freedPrev"
\*   "reusedFresh" returned again from "freedFresh"
\* ------------------------------------------------------------------------

HistOnReturn(h) ==
  IF h = "stepped" THEN "recycled"
  ELSE IF h = "freedPrev" THEN "reusedPrev"
  ELSE IF h = "freedFresh" THEN "reusedFresh"
  ELSE "live"

HistAfterCall(hist, cur, cur2, prev, returned) ==
  [s \in Slots |->
     IF s = returned THEN HistOnReturn(hist[s])
     ELSE IF hist[s] = "unused" THEN "unused"
     ELSE IF isAllocated(s, cur) /\ ~isAllocated(s, cur2)
       THEN (IF isAllocated(s, prev) THEN "freedPrev" ELSE "freedFresh")
     ELSE IF ~isAllocated(s, cur) /\ isAllocated(s, cur2) THEN "live"
     ELSE hist[s]]

HistAfterStep(hist) ==
  [s \in Slots |->
     IF hist[s] = "freedPrev" THEN "stepped"
     ELSE IF hist[s] = "freedFresh" THEN "steppedFresh"
     ELSE hist[s]]

\* successful createEntity calls in a row, counted up to MaxEntities
Min(a, b) == IF a < b THEN a ELSE b

StreakAfterCreate(k, list, res) ==
  IF res \in Errors THEN k
  ELSE [any |-> Min(k.any + 1, MaxEntities),
        nonEmpty |-> IF list = <<>> THEN k.nonEmpty
                     ELSE Min(k.nonEmpty + 1, MaxEntities)]

NoStreak == [any |-> 0, nonEmpty |-> 0]

\* ------------------------------------------------------------------------
\* Inputs of the calls
\* ------------------------------------------------------------------------

\* the initialComponents lists handed to createEntity: empty, one type, a
\* type with a value, two types, a type twice, a value where a type is
\* expected (first, and after a type and its value)
InitLists ==
  { <<>>,
    <<TypeItem(0)>>,
    <<TypeItem(NumTypes - 1)>>,
    <<TypeItem(1), ValueItem>>,
    <<TypeItem(0), TypeItem(1)>>,
    <<TypeItem(0), TypeItem(0)>>,
    <<ValueItem>>,
    <<TypeItem(NumTypes - 1), ValueItem, ValueItem>> }

St == [cur |-> current, mut |-> mutations, fld |-> fieldValues, log |-> <<>>]

\* ------------------------------------------------------------------------
\* Actions: one per public operation
\* ------------------------------------------------------------------------

Step ==
  /\ LET r == step(current, previous, mutations)
     IN /\ current' = r.cur
        /\ previous' = r.prev
        /\ mutations' = r.mut
  /\ slotHist' = HistAfterStep(slotHist)
  /\ streak' = NoStreak
  /\ last' = Call("step", 0, "ok")
  /\ calls' = calls + 1
  /\ effects' = <<>>
  /\ UNCHANGED <<nextId, built, iter, pool, handed, fieldValues,
                 sup>>

\* the fields after the initComponent calls of entity.add in createEntity,
\* one for each component that the call attached to slot id
initAdded(fld, id, cur, after) ==
  [k \in FieldKeys |->
     IF k[1] = id /\ hasFlag(after, id, k[2]) /\ ~hasFlag(cur, id, k[2])
       THEN ZeroFields[k] ELSE fld[k]]

CreateEntity(list, rw) ==
  /\ \E r \in {createEntity(current, previous, mutations, nextId, list, rw)} :
        /\ current' = r.cur
        /\ mutations' = r.mut
        /\ nextId' = r.next
        /\ last' = Call("createEntity", r.id, r.res)
        /\ slotHist' = HistAfterCall(slotHist, current, r.cur, previous,
                                     IF r.res \in Errors THEN 0 ELSE r.id)
        /\ streak' = StreakAfterCreate(streak, list, r.res)
        /\ fieldValues' = initAdded(fieldValues, r.id, current, r.cur)
  /\ calls' = calls + 1
  /\ effects' = <<>>
  /\ UNCHANGED <<previous, built, iter, pool, handed, sup>>

\* a call, with outcome r, on the handle that Entities.bind(id) hands out;
\* noted is the slot recorded with the call (0 when none is)
HandleCallWith(op, noted, r, resets) ==
  /\ \E done \in {r} :
       /\ current' = done.cur
       /\ mutations' = done.mut
       /\ last' = Call(op, noted, done.res)
       /\ slotHist' = HistAfterCall(slotHist, current, done.cur, previous, 0)
       /\ fieldValues' = done.fld
       /\ effects' = done.log
  /\ streak' = IF resets THEN NoStreak ELSE streak
  /\ calls' = calls + 1
  /\ UNCHANGED <<previous, nextId, built, iter, pool, handed, sup>>

\* a call that assigns to no field
HandleCallOn(op, noted, r, resets) ==
  \E done \in {r} :
    HandleCallWith(op, noted,
                   Effect(done.cur, done.mut, done.res, fieldValues, <<>>),
                   resets)

HandleCall(op, r, resets) == HandleCallOn(op, 0, r, resets)

\* Entity.add, with the initComponent call at its end
addAndInit(st, id, type, rw) ==
  LET a == add(st, id, type, rw)
  IN Effect(a.cur, a.mut, a.res,
            IF a.res = "ok" THEN initComponent(st.fld, id, type) ELSE st.fld,
            st.log)

Add(id, type, rw) ==
  HandleCallWith("add", 0, addAndInit(St, id, type, rw), FALSE)

Remove(id, type, rw) ==
  HandleCallWith("remove", 0, remove(St, id, type, rw), TRUE)

Has(id, type, rw) ==
  HandleCall("has", Outcome(current, mutations, has(St, id, type, rw)), FALSE)

Read(id, type, rw) == HandleCall("read", read(St, id, type, rw), FALSE)

ReadIfPresent(id, type, rw) ==
  HandleCall("readIfPresent", readIfPresent(St, id, type, rw), FALSE)

Write(id, type, rw) == HandleCall("write", write(St, id, type, rw), FALSE)

Delete(id, rw) == HandleCallWith("delete", id, delete(St, id, rw), TRUE)

\* entity.write(type)[name] = value
writeField(st, id, type, name, value, rw) ==
  LET w == write(st, id, type, rw)
  IN Effect(w.cur, w.mut, w.res,
            IF w.res \in Errors THEN st.fld
            ELSE setField(st.fld, id, type, name, value),
            st.log)

WriteField(id, type, name, value, rw) ==
  HandleCallWith("write", id, writeField(St, id, type, name, value, rw), FALSE)

\* ------------------------------------------------------------------------
\* Spec: every operation, called by systems with and without rwMasks
\* ------------------------------------------------------------------------

\* the caller makes another call while its budget of calls lasts
More(limit) == calls < limit

Next ==
  \/ More(MaxCalls) /\ Step
  \/ \E list \in InitLists, rw \in RwChoices :
       More(MaxCalls) /\ CreateEntity(list, rw)
  \/ \E id \in Slots, type \in UsedTypes, rw \in RwChoices :
       More(MaxCalls) /\ Add(id, type, rw)
  \/ \E id \in Slots, type \in UsedTypes, rw \in RwChoices :
       More(MaxCalls) /\ Remove(id, type, rw)
  \/ \E id \in Slots, type \in UsedTypes, rw \in RwChoices :
       More(MaxCalls) /\ Has(id, type, rw)
  \/ \E id \in Slots, type \in UsedTypes, rw \in RwChoices :
       More(MaxCalls) /\ Read(id, type, rw)
  \/ \E id \in Slots, type \in UsedTypes, rw \in RwChoices :
       More(MaxCalls) /\ ReadIfPresent(id, type, rw)
  \/ \E id \in Slots, type \in UsedTypes, rw \in RwChoices :
       More(MaxCalls) /\ Write(id, type, rw)
  \/ \E id \in Slots, rw \in RwChoices : More(MaxCalls) /\ Delete(id, rw)

Spec == Init /\ [][Next]_vars

\* ------------------------------------------------------------------------
\* SpecAlloc: the life cycle of slots (createEntity, add, remove, delete,
\* step) over longer runs, with no rwMasks installed
\* ------------------------------------------------------------------------

\* the component type attached and removed one at a time in SpecAlloc
AllocTypes == {NumTypes - 1}

\* the initialComponents lists of SpecAlloc: empty, one type, two types of
\* the same word, and a type twice (which fails after the first add)
AllocLists ==
  { <<>>,
    <<TypeItem(NumTypes - 1)>>,
    <<TypeItem(0), TypeItem(1)>>,
    <<TypeItem(NumTypes - 1), TypeItem(NumTypes - 1)>> }

NextAlloc ==
  \/ More(MaxAllocCalls) /\ Step
  \/ \E list \in AllocLists : More(MaxAllocCalls) /\ CreateEntity(list, NoMasks)
  \/ \E id \in Slots, type \in AllocTypes :
       More(MaxAllocCalls) /\ Add(id, type, NoMasks)
  \/ \E id \in Slots, type \in AllocTypes :
       More(MaxAllocCalls) /\ Remove(id, type, NoMasks)
  \/ \E id \in Slots : More(MaxAllocCalls) /\ Delete(id, NoMasks)

SpecAlloc == Init /\ [][NextAlloc]_vars

\* ------------------------------------------------------------------------
\* SpecPlain: every operation of the handle, with no rwMasks installed
\* ------------------------------------------------------------------------

NextPlain ==
  \/ More(MaxCalls) /\ Step
  \/ \E list \in InitLists : More(MaxCalls) /\ CreateEntity(list, NoMasks)
  \/ \E id \in Slots, type \in UsedTypes :
       More(MaxCalls) /\ Add(id, type, NoMasks)
  \/ \E id \in Slots, type \in UsedTypes :
       More(MaxCalls) /\ Remove(id, type, NoMasks)
  \/ \E id \in Slots, type \in UsedTypes :
       More(MaxCalls) /\ Has(id, type, NoMasks)
  \/ \E id \in Slots, type \in UsedTypes :
       More(MaxCalls) /\ Read(id, type, NoMasks)
  \/ \E id \in Slots, type \in UsedTypes :
       More(MaxCalls) /\ ReadIfPresent(id, type, NoMasks)
  \/ \E id \in Slots, type \in UsedTypes :
       More(MaxCalls) /\ Write(id, type, NoMasks)
  \/ \E id \in Slots : More(MaxCalls) /\ Delete(id, NoMasks)

SpecPlain == Init /\ [][NextPlain]_vars

\* ------------------------------------------------------------------------
\* SpecMatch: runs of store operations that end with one match call
\* ------------------------------------------------------------------------

\* every registered type, in registration order
AllTypesList == [i \in 1..NumTypes |-> TypeItem(i - 1)]

\* the initialComponents lists of SpecMatch
MatchLists ==
  { <<TypeItem(0)>>,
    <<TypeItem(0), TypeItem(1)>>,
    <<TypeItem(NumTypes - 1)>>,
    AllTypesList }

\* the masks the query layer builds: none, masks of one or two types (the
\* last type's alone starts past the first word), and the filled mask
QueryMasks ==
  { Omitted,
    Given(BuildMask(<<>>, {0})),
    Given(BuildMask(<<>>, {0, 1})),
    Given(BuildMask(<<>>, {NumTypes - 1})),
    Given(BuildMask(<<>>, {0, NumTypes - 1})),
    Given(createFilledMask) }

MatchOps == {"matchCurrent", "matchPrevious", "matchMutated"}

\* a match call: the store is left alone, the answer is recorded
MatchCall(op, id, answer, pos, neg) ==
  /\ last' = CallWith(op, id, IF answer THEN "true" ELSE "false",
                      MaskArgs(pos, neg))
  /\ calls' = calls + 1
  /\ effects' = <<>>
  /\ UNCHANGED <<current, previous, mutations, nextId, slotHist, streak,
                 built, iter, pool, handed, fieldValues, sup>>

MatchCurrent(id, pos, neg) ==
  MatchCall("matchCurrent", id, matchCurrent(id, pos, neg), pos, neg)

MatchPrevious(id, pos, neg) ==
  MatchCall("matchPrevious", id, matchPrevious(id, pos, neg), pos, neg)

MatchMutated(id, pos, neg) ==
  MatchCall("matchMutated", id, matchMutated(id, pos, neg), pos, neg)

\* the run has ended with its match call
Asked == last.op \in MatchOps

NextMatch ==
  \/ ~Asked /\ More(MaxCalls) /\ Step
  \/ \E list \in MatchLists :
       ~Asked /\ More(MaxCalls) /\ CreateEntity(list, NoMasks)
  \/ \E id \in Slots, type \in UsedTypes :
       ~Asked /\ More(MaxCalls) /\ Remove(id, type, NoMasks)
  \/ \E id \in Slots, type \in UsedTypes :
       ~Asked /\ More(MaxCalls) /\ Write(id, type, NoMasks)
  \/ \E id \in Slots, pos \in QueryMasks, neg \in QueryMasks :
       ~Asked /\ MatchCurrent(id, pos, neg)
  \/ \E id \in Slots, pos \in QueryMasks, neg \in QueryMasks :
       ~Asked /\ MatchPrevious(id, pos, neg)
  \/ \E id \in Slots, pos \in QueryMasks, neg \in QueryMasks :
       ~Asked /\ MatchMutated(id, pos, neg)

SpecMatch == Init /\ [][NextMatch]_vars

\* ------------------------------------------------------------------------
\* SpecIter: iterations consumed while the store is changed
\* ------------------------------------------------------------------------

\* the slots 1..maxEntities that matchCurrent accepts, in ascending order
MatchingSlots(pos, neg) ==
  SelectSeq([s \in 1..MaxEntities |-> s],
            LAMBDA s : matchCurrent(s, pos, neg))

IterateAll(pos, neg) ==
  /\ iter' = [iterateAll(current, pos, neg) EXCEPT
                !.matched = MatchingSlots(pos, neg)]
  /\ last' = CallWith("iterateAll", 0, "ok", MaskArgs(pos, neg))
  /\ calls' = calls + 1
  /\ effects' = <<>>
  /\ UNCHANGED <<current, previous, mutations, nextId, slotHist, streak,
                 built, pool, handed, fieldValues, sup>>

Iterate(buf, pos, neg) ==
  /\ iter' = iterate(buf, pos, neg)
  /\ last' = CallWith("iterate", 0, "ok", MaskArgs(pos, neg))
  /\ calls' = calls + 1
  /\ effects' = <<>>
  /\ UNCHANGED <<current, previous, mutations, nextId, slotHist, streak,
                 built, pool, handed, fieldValues, sup>>

\* the consumer asks the iterator for its next element
IteratorNext ==
  /\ iter.kind # "none"
  /\ ~iter.done
  /\ LET r == IF iter.kind = "all" THEN nextAll(iter)
              ELSE nextPred(iter, current, previous, mutations)
     IN /\ iter' = r.it
        /\ last' = Call("next", r.value, IF r.done THEN "done" ELSE "value")
  /\ calls' = calls + 1
  /\ effects' = <<>>
  /\ UNCHANGED <<current, previous, mutations, nextId, slotHist, streak,
                 built, pool, handed, fieldValues, sup>>

\* the initialComponents lists of SpecIter
IterLists == {<<TypeItem(0)>>, <<TypeItem(0), TypeItem(1)>>}

\* the (withMask, withoutMask) pairs of the iterateAll calls
AllQueries ==
  { MaskArgs(Given(BuildMask(<<>>, {0})), Omitted),
    MaskArgs(Given(BuildMask(<<>>, {0})), Given(BuildMask(<<>>, {1}))),
    MaskArgs(Omitted, Omitted) }

\* the predicates of the iterate calls: with a type in current or in
\* previous, with a type written this frame
PredQueries ==
  { [buf |-> "current", pos |-> Given(BuildMask(<<>>, {0})),
     neg |-> Given(BuildMask(<<>>, {1}))],
    [buf |-> "previous", pos |-> Given(BuildMask(<<>>, {0})), neg |-> Omitted],
    [buf |-> "mutations", pos |-> Given(BuildMask(<<>>, {0})), neg |-> Omitted] }

NextIter ==
  \/ More(MaxIterCalls) /\ Step
  \/ \E list \in IterLists : More(MaxIterCalls) /\ CreateEntity(list, NoMasks)
  \/ \E id \in Slots : More(MaxIterCalls) /\ Remove(id, 1, NoMasks)
  \/ \E id \in Slots : More(MaxIterCalls) /\ Write(id, 0, NoMasks)
  \/ \E id \in Slots : More(MaxIterCalls) /\ Delete(id, NoMasks)
  \/ \E q \in AllQueries : More(MaxIterCalls) /\ IterateAll(q.pos, q.neg)
  \/ \E q \in PredQueries : More(MaxIterCalls) /\ Iterate(q.buf, q.pos, q.neg)
  \/ More(MaxIterCalls) /\ IteratorNext

SpecIter == Init /\ [][NextIter]_vars

\* ------------------------------------------------------------------------
\* SpecMask: the query layer builds a mask
\* ------------------------------------------------------------------------

\* the types whose flags are set: the first and last of each word
MaskTypes == {0, 1, BitsPerWord - 1, BitsPerWord, NumTypes - 1}

\* a call of the mask builders, which leave the store alone
MaskCall(op, mask) ==
  /\ built' = mask
  /\ last' = Call(op, 0, "ok")
  /\ calls' = calls + 1
  /\ UNCHANGED <<current, previous, mutations, nextId, slotHist, streak, iter,
                 pool, handed, fieldValues, effects, sup>>

\* const mask = []
EmptyMask == MaskCall("emptyMask", <<>>)

\* const mask = entities.createFilledMask()
CreateFilledMask == MaskCall("createFilledMask", createFilledMask)

\* entities.extendMaskAndSetFlag(mask, type)
ExtendMaskAndSetFlag(type) ==
  MaskCall("extendMaskAndSetFlag", extendMaskAndSetFlag(built, type))

NextMask ==
  \/ More(MaxMaskCalls) /\ EmptyMask
  \/ More(MaxMaskCalls) /\ CreateFilledMask
  \/ \E type \in MaskTypes : More(MaxMaskCalls) /\ ExtendMaskAndSetFlag(type)

SpecMask == Init /\ [][NextMask]_vars

\* ------------------------------------------------------------------------
\* SpecPool: take, borrow and reset on a Pool
\* ------------------------------------------------------------------------

PoolOps == {"take", "borrow", "reset"}

\* a call on the pool, which leaves the store alone
PoolCall(op, p, h) ==
  /\ pool' = p
  /\ handed' = h
  /\ last' = Call(op, 0, "ok")
  /\ calls' = calls + 1
  /\ UNCHANGED <<current, previous, mutations, nextId, slotHist, streak,
                 built, iter, fieldValues, effects, sup>>

NewPool(initialSize) == PoolCall("new", Pool(initialSize), NoneHanded)

Take ==
  LET r == take(pool)
  IN PoolCall("take", r.pool,
              [handed EXCEPT !.taken = Append(@, r.value), !.value = r.value])

Borrow ==
  LET r == borrow(pool)
  IN PoolCall("borrow", r.pool, [handed EXCEPT !.value = r.value])

Reset ==
  PoolCall("reset", reset(pool),
           [taken |-> <<>>,
            before |-> IF Len(handed.taken) >= Len(handed.before)
                       THEN handed.taken ELSE handed.before,
            value |-> 0])

NextPool ==
  \/ \E n \in 0..MaxInitialSize : More(MaxPoolCalls) /\ NewPool(n)
  \/ More(MaxPoolCalls) /\ Take
  \/ More(MaxPoolCalls) /\ Borrow
  \/ More(MaxPoolCalls) /\ Reset

SpecPool == Init /\ [][NextPool]_vars

\* ------------------------------------------------------------------------
\* SpecRefs: components with reference fields are written and removed
\* ------------------------------------------------------------------------

\* the values that callers assign to a field
ValuesOf(field) ==
  IF field.type = "ref" THEN {EntityRef(1)} ELSE {Number(1)}

\* the types that the callers of SpecRefs attach: those that have fields
RefSpecTypes == {0, 1}

NextRefs ==
  \/ \E id \in Slots, type \in RefSpecTypes :
       More(MaxRefCalls) /\ Add(id, type, NoMasks)
  \/ \E id \in Slots, type \in RefSpecTypes :
       \E i \in 1..Len(getFields(type)) :
         \E value \in ValuesOf(getFields(type)[i]) :
           /\ More(MaxRefCalls)
           /\ WriteField(id, type, getFields(type)[i].name, value, NoMasks)
  \/ \E id \in Slots, type \in RefSpecTypes, rw \in RwChoices :
       More(MaxRefCalls) /\ Remove(id, type, rw)
  \/ \E id \in Slots, rw \in RwChoices : More(MaxRefCalls) /\ Delete(id, rw)

SpecRefs == Init /\ [][NextRefs]_vars

\* ------------------------------------------------------------------------
\* SpecCo: a system starts coroutines and its supervisor executes them
\* ------------------------------------------------------------------------

\* a step of the supervisor, which leaves the store alone; counted tells
\* whether it is a call that the system makes
SupervisorStep(op, s, counted) ==
  /\ sup' = s
  /\ last' = Call(op, 0, "ok")
  /\ calls' = IF counted THEN calls + 1 ELSE calls
  /\ UNCHANGED <<current, previous, mutations, nextId, slotHist, streak,
                 built, iter, fieldValues, effects, pool, handed>>

\* system.start(generator), outside execute()
Start ==
  /\ sup.pc = "idle"
  /\ sup.made < MaxCoroutines
  /\ SupervisorStep("start", start(sup), FALSE)

\* supervisor.execute() is called
Execute ==
  /\ sup.pc = "idle"
  /\ SupervisorStep("execute", execute(sup), TRUE)

\* coroutine.cancel() is called on the handle that start returned, outside
\* execute(), for a coroutine that has not finished
Cancel(c) ==
  /\ sup.pc = "idle"
  /\ c <= sup.made
  /\ ~sup.objs[c].done
  /\ sup' = [sup EXCEPT !.objs = cancel(@, c)]
  /\ last' = Call("cancel", c, "ok")
  /\ UNCHANGED <<current, previous, mutations, nextId, slotHist, streak,
                 built, iter, fieldValues, effects, pool, handed, calls>>

CheckTurn(fires) ==
  /\ sup.pc = "check"
  /\ SupervisorStep("checkCancelation", checkTurn(sup, fires), FALSE)

StepTurn(r) ==
  /\ sup.pc = "step"
  /\ r.ends = "rethrow" => throwsInto(sup, sup.coroutines[sup.i + 1])
  /\ SupervisorStep("step", stepTurn(sup, r), FALSE)

NextCo ==
  \/ Start
  \/ More(MaxExecutes) /\ Execute
  \/ \E c \in CoroutineIds : Cancel(c)
  \/ \E fires \in BOOLEAN : CheckTurn(fires)
  \/ \E r \in Resumptions(sup) : StepTurn(r)

SpecCo == Init /\ [][NextCo]_vars

\* ------------------------------------------------------------------------
\* SpecFrames: coroutines that wait for frames, one execute() per frame
\* ------------------------------------------------------------------------

NextFrames ==
  \/ Start
  \/ More(MaxFrames) /\ Execute
  \/ CheckTurn(FALSE)
  \/ \E r \in FrameResumptions : StepTurn(r)

SpecFrames == Init /\ [][NextFrames]_vars

\* ------------------------------------------------------------------------
\* Helpers of the claims
\* ------------------------------------------------------------------------

\* bit (slot s, type t) of a buffer: bit t mod 32 of word t div 32 of the
\* slot's word range
Bit(buf, s, t) == (t % BitsPerWord) \in buf[s * stride + (t \div BitsPerWord)]

\* the three buffers the claims speak of
buffers == <<current, previous, mutations>>

\* slot s holds no bit in current nor in previous
FreeInBoth(s, cur, prev) ==
  \A i \in WordIndexes :
    (i \div stride = s) => (cur[i] = {} /\ prev[i] = {})

\* number of slots visited from the cursor before reaching s, cyclically
CyclicDistance(from, s) == (s - from + MaxEntities) % MaxEntities

\* the bits of every (slot, type) other than (s, t) are the same in a and b
SameExcept(a, b, s, t) ==
  LET word == s * stride + (t \div BitsPerWord)
      bit == {t % BitsPerWord}
  IN \A i \in stride..(maxNum * stride - 1) :
       IF i = word THEN a[i] \ bit = b[i] \ bit ELSE a[i] = b[i]

\* ------------------------------------------------------------------------
\* C1
\* ------------------------------------------------------------------------

\* C1 as stated: createEntity never returns again a slot that was emptied
\* (last component removed, or delete) unless a full step() has run between
\* the emptying and the call.
C1_StepBeforeEveryReuse ==
  \A s \in Slots : slotHist[s] \notin {"reusedPrev", "reusedFresh"}

\* C1 amended: a slot that previous still held when it was emptied is not
\* returned again by createEntity before a step() has run; only a slot that
\* was allocated and emptied between two consecutive steps can come back
\* with no step in between.
C1_NoReuseWhileInPrevious ==
  \A s \in Slots : slotHist[s] # "reusedPrev"

\* a slot emptied while previous held it came back after a step()
C1_Witness ==
  /\ last.op = "createEntity"
  /\ last.res = "ok"
  /\ slotHist[last.id] = "recycled"

\* ------------------------------------------------------------------------
\* C2
\* ------------------------------------------------------------------------

\* C2: a successful createEntity returns the first slot, in cyclic order
\* from the cursor nextId (wrapping from maxEntities to 1), that holds no bit
\* in current and none in previous, and moves the cursor to the slot after
\* it (wrapping to 1); the slot returned is in 1..maxEntities, never 0.
C2_FirstFreeFromCursor ==
  [][(last'.op = "createEntity" /\ last'.res = "ok") =>
       LET id == last'.id
       IN /\ id \in Slots
          /\ FreeInBoth(id, current, previous)
          /\ \A s \in Slots :
               CyclicDistance(nextId, s) < CyclicDistance(nextId, id)
                 => ~FreeInBoth(s, current, previous)
          /\ nextId' = IF id = MaxEntities THEN 1 ELSE id + 1]_vars

\* slot 1 is handed out a second time, so the scan or the cursor wrapped
\* from maxEntities back to 1, while the last slot is still allocated
C2_Witness ==
  /\ last.op = "createEntity"
  /\ last.res = "ok"
  /\ last.id = 1
  /\ slotHist[1] \in {"recycled", "reusedFresh"}
  /\ isAllocated(MaxEntities, current)

\* ------------------------------------------------------------------------
\* C3
\* ------------------------------------------------------------------------

\* C3: createEntity fails with the capacity error exactly when every slot of
\* 1..maxEntities is allocated in current or in previous at the call, and
\* that failure leaves current, previous, mutations and the cursor unchanged.
C3_CapacityIffAllHeld ==
  [][(last'.op = "createEntity") =>
       /\ (last'.res = "capacity") <=>
            (\A s \in Slots : ~FreeInBoth(s, current, previous))
       /\ (last'.res = "capacity") =>
            UNCHANGED <<current, previous, mutations, nextId>>]_vars

\* the call failed although a slot is empty in current: previous holds it
C3_Witness ==
  /\ last.op = "createEntity"
  /\ last.res = "capacity"
  /\ \E s \in Slots : ~isAllocated(s, current) /\ isAllocated(s, previous)

\* ------------------------------------------------------------------------
\* C4
\* ------------------------------------------------------------------------

\* C4 as stated: after maxEntities successful createEntity calls with no
\* remove, delete or step in between, the next createEntity fails with the
\* capacity error, whatever lists the calls were given (empty ones included).
C4_FullAfterMaxCreates ==
  [][(last'.op = "createEntity" /\ streak.any = MaxEntities) =>
       last'.res = "capacity"]_vars

\* C4 amended: after maxEntities successful createEntity calls that were
\* each given a non-empty list, with no remove, delete or step in between,
\* the next createEntity fails with the capacity error.
C4_FullAfterMaxNonEmptyCreates ==
  [][(last'.op = "createEntity" /\ streak.nonEmpty = MaxEntities) =>
       last'.res = "capacity"]_vars

\* the call after maxEntities populated entities failed
C4_Witness ==
  /\ last.op = "createEntity"
  /\ last.res = "capacity"
  /\ streak.nonEmpty = MaxEntities
  /\ calls = MaxEntities + 1

\* ------------------------------------------------------------------------
\* C5
\* ------------------------------------------------------------------------

\* C5: right after every step() previous equals current word for word,
\* every mutation bit is zero, and current is what it was before the call.
C5_StepCopiesAndClears ==
  [][(last'.op = "step") =>
       /\ \A i \in WordIndexes : previous'[i] = current'[i]
       /\ \A i \in WordIndexes : mutations'[i] = {}
       /\ current' = current]_vars

\* after a step a component that was present is still present, and
\* previous now shows it too
C5_Witness ==
  /\ last.op = "step"
  /\ \E s \in Slots : Bit(current, s, 0) /\ Bit(previous, s, 0)

\* ------------------------------------------------------------------------
\* C6
\* ------------------------------------------------------------------------

\* mutation bit (s, t) goes from 0 to 1 in this step
NewMutation(s, t) == ~Bit(mutations, s, t) /\ Bit(mutations', s, t)

\* C6 as stated: a mutation bit goes from 0 to 1 only in a write(type) call
\* of the caller; createEntity, add, remove and delete set none, whether or
\* not the component type declares entity-reference fields.
C6_OnlyWriteMarks ==
  [][\A s \in Slots, t \in Types : NewMutation(s, t) => last'.op = "write"]_vars

\* C6 amended: a mutation bit (s, t) goes from 0 to 1 only in a write(t)
\* call of the caller on s, or in a remove/delete call that removes from s a
\* component t whose type declares an entity-reference field (the removal
\* nulls the field through write(t)); createEntity and add set none.
C6_WriteOrRefRemoval ==
  [][(mutations' # mutations /\ last'.op # "write") =>
       \A s \in Slots, t \in Types :
         NewMutation(s, t) =>
           /\ last'.op \in {"remove", "delete"}
           /\ HasRefField(t)
           /\ Bit(current, s, t)
           /\ ~Bit(current', s, t)]_vars

\* a component with a reference field was attached and then removed: its
\* mutation bit is set although write was never called
C6_Witness ==
  /\ last.op = "remove"
  /\ last.res = "true"
  /\ calls = 2
  /\ \E s \in Slots : Bit(mutations, s, 0) /\ ~Bit(current, s, 0)

\* ------------------------------------------------------------------------
\* C7
\* ------------------------------------------------------------------------

\* what add and remove leave alone: the presence bits of the other slots
\* and types and the previous buffer; has then reports the current bit
C7_Frame(id, t) ==
  /\ SameExcept(current, current', id, t)
  /\ previous' = previous
  /\ has([cur |-> current', mut |-> mutations'], id, t, NoMasks)
       = (IF Bit(current', id, t) THEN "true" ELSE "false")

\* C7: add(t) on a slot lacking t sets presence bit (s, t); remove(t) on a
\* slot having t clears it and returns true; remove(t) on a slot lacking t
\* returns false and changes nothing; in each case no other presence bit
\* changes, previous is untouched and has(s, t) equals the current bit.
C7_AddRemoveFrame ==
  [][\A id \in Slots, t \in UsedTypes :
       /\ (last'.op = "add" /\ ~Bit(current, id, t) /\ Add(id, t, NoMasks)) =>
            (Bit(current', id, t) /\ last'.res = "ok" /\ C7_Frame(id, t))
       /\ (last'.op = "remove" /\ Bit(current, id, t)
             /\ Remove(id, t, NoMasks)) =>
            (~Bit(current', id, t) /\ last'.res = "true" /\ C7_Frame(id, t))
       /\ (last'.op = "remove" /\ ~Bit(current, id, t)
             /\ Remove(id, t, NoMasks)) =>
            (last'.res = "false" /\ UNCHANGED buffers /\ C7_Frame(id, t))]_vars

\* a component was removed from a slot that keeps another component of the
\* same word, while previous still shows the removed one
C7_Witness ==
  /\ last.op = "remove"
  /\ last.res = "true"
  /\ \E s \in Slots :
       Bit(previous, s, 0) /\ ~Bit(current, s, 0) /\ Bit(current, s, 1)

\* ------------------------------------------------------------------------
\* C8
\* ------------------------------------------------------------------------

\* the system whose masks are rw may read and write type t
Entitled(rw, t) ==
  ~rw.active \/ (maskHasFlag(rw.read, t) /\ maskHasFlag(rw.write, t))

\* C8: add(t) on a slot that already has t fails, with the duplicate-attach
\* error unless a capability violation is raised first; and every add or
\* remove call that fails (duplicate-attach, or a capability violation at
\* any point of the call, de-indexing of reference fields included) leaves
\* current, previous and mutations as they were.
C8_FailedCallsChangeNothing ==
  [][/\ \A id \in Slots, t \in UsedTypes, rw \in RwChoices :
          (last'.op = "add" /\ Bit(current, id, t) /\ Add(id, t, rw)) =>
            /\ last'.res \in {"duplicate", "capability"}
            /\ Entitled(rw, t) => last'.res = "duplicate"
     /\ (last'.op \in {"add", "remove"} /\ last'.res \in Errors) =>
          UNCHANGED buffers]_vars

\* a duplicate add failed on a populated store
C8_Witness ==
  /\ last.op = "add"
  /\ last.res = "duplicate"
  /\ \E s \in Slots : Bit(current, s, 0)

\* ------------------------------------------------------------------------
\* C9
\* ------------------------------------------------------------------------

\* the rwMasks of a system that declared the read set d[1] and write set d[2]
MasksOf == [d \in DeclaredSets |->
              RwMasks(BuildMask(<<>>, d[1]), BuildMask(<<>>, d[2]))]

\* the call just made was has, read or readIfPresent of (id, t) under rw
ReadSideCall(id, t, rw) ==
  \/ last'.op = "has" /\ Has(id, t, rw)
  \/ last'.op = "read" /\ Read(id, t, rw)
  \/ last'.op = "readIfPresent" /\ ReadIfPresent(id, t, rw)

\* the call just made was add, remove or write of (id, t) under rw
WriteSideCall(id, t, rw) ==
  \/ last'.op = "add" /\ Add(id, t, rw)
  \/ last'.op = "remove" /\ Remove(id, t, rw)
  \/ last'.op = "write" /\ Write(id, t, rw)

\* C9: with rwMasks installed, has/read/readIfPresent of a type outside the
\* read mask and add/remove/write of a type outside the write mask fail
\* with a capability error, component present or not, and change no buffer.
C9_CapabilityError ==
  [][~(last'.res = "capability" /\ UNCHANGED buffers) =>
       \A d \in DeclaredSets, t \in UsedTypes, id \in Slots :
         /\ ~(t \notin d[1] /\ ReadSideCall(id, t, MasksOf[d]))
         /\ ~(t \notin d[2] /\ WriteSideCall(id, t, MasksOf[d]))]_vars

\* a write was refused on a slot that has components
C9_Witness ==
  /\ last.op = "write"
  /\ last.res = "capability"
  /\ \A s \in Slots : Bit(current, s, 0) /\ Bit(current, s, 1)

\* ------------------------------------------------------------------------
\* C10
\* ------------------------------------------------------------------------

\* C10: read(t) and write(t) on a slot lacking t fail with the missing-
\* component error and set no mutation bit; readIfPresent(t) returns the
\* absent value without failing; write(t) on a slot having t sets mutation
\* bit (slot, t) only and leaves current and previous unchanged.
C10_MissingAndWrite ==
  [][\A id \in Slots, t \in UsedTypes :
       /\ ( /\ ~Bit(current, id, t)
            /\ \/ last'.op = "read" /\ Read(id, t, NoMasks)
               \/ last'.op = "write" /\ Write(id, t, NoMasks) )
            => (last'.res = "missing" /\ UNCHANGED buffers)
       /\ ( /\ last'.op = "readIfPresent"
            /\ ~Bit(current, id, t)
            /\ ReadIfPresent(id, t, NoMasks) )
            => (last'.res = "undefined" /\ UNCHANGED buffers)
       /\ (last'.op = "write" /\ Bit(current, id, t) /\ Write(id, t, NoMasks))
            => /\ last'.res = "component"
               /\ Bit(mutations', id, t)
               /\ SameExcept(mutations, mutations', id, t)
               /\ current' = current
               /\ previous' = previous]_vars

\* a write went through on a slot that holds a second, unwritten component
C10_Witness ==
  /\ last.op = "write"
  /\ last.res = "component"
  /\ \E s \in Slots :
       Bit(current, s, 0) /\ Bit(current, s, 1)
       /\ Bit(mutations, s, 1) /\ ~Bit(mutations, s, 0)

\* ------------------------------------------------------------------------
\* C11
\* ------------------------------------------------------------------------

\* what a delete() that returned normally on slot s leaves behind: s has no
\* presence bit in current, the words of the other slots and previous are
\* as before
C11_DeleteEffect(s) ==
  /\ \A t \in Types : ~Bit(current', s, t)
  /\ \A i \in WordIndexes :
       (i < s * stride \/ i >= (s + 1) * stride) => current'[i] = current[i]
  /\ previous' = previous

\* C11 as stated: after delete() returns normally on slot s, s is
\* unallocated in current, the other slots and previous are unchanged, and
\* s is handed out again only after a later step(); in particular, when s
\* was an entity that has been emptied since the last step(), the
\* createEntity call that directly follows the delete does not return s.
C11_DeleteThenStepBeforeReuse ==
  [][/\ (last'.op = "delete" /\ last'.res = "ok") => C11_DeleteEffect(last'.id)
     /\ ( /\ last.op = "delete" /\ last.res = "ok"
          /\ slotHist[last.id] \in {"freedPrev", "freedFresh"}
          /\ last'.op = "createEntity" /\ last'.res = "ok" )
          => last'.id # last.id]_vars

\* C11 amended: after delete() returns normally on slot s, s is unallocated
\* in current, the other slots and previous are unchanged; createEntity
\* never returns a slot that previous holds and only step() changes
\* previous, so a slot that previous held when it was deleted is handed out
\* again only once a later step() has cleared it from previous.
C11_DeleteThenHeldByPrevious ==
  [][/\ (last'.op = "delete" /\ last'.res = "ok") => C11_DeleteEffect(last'.id)
     /\ (last'.op = "createEntity" /\ last'.res = "ok")
          => \A t \in Types : ~Bit(previous, last'.id, t)
     /\ previous' # previous => last'.op = "step"]_vars

\* a slot with two components that previous holds was deleted while the
\* other slot stays allocated
C11_Witness ==
  /\ last.op = "delete"
  /\ last.res = "ok"
  /\ last.id \in Slots
  /\ Bit(previous, last.id, 0) /\ Bit(previous, last.id, 1)
  /\ ~isAllocated(last.id, current)
  /\ \E s \in Slots : s # last.id /\ isAllocated(s, current)

\* ------------------------------------------------------------------------
\* C12
\* ------------------------------------------------------------------------

\* the bits a mask asks for in word i (1-based); none past its length, none
\* when it is omitted, none in a word that was never written
MaskBits(mask, i) ==
  IF mask.given /\ i <= Len(mask.words) THEN ToBits(mask.words[i]) ELSE {}

\* the match condition of the claim on the words of slot s in buffer buf
Matches(buf, s, pos, neg) ==
  \A i \in 1..stride :
    /\ MaskBits(pos, i) \subseteq buf[s * stride + i - 1]
    /\ MaskBits(neg, i) \cap buf[s * stride + i - 1] = {}

\* the buffer a match operation looks at
BufferOf(op) ==
  IF op = "matchCurrent" THEN current
  ELSE IF op = "matchPrevious" THEN previous
  ELSE mutations

\* C12: matchCurrent, matchPrevious and matchMutated return true iff, in
\* their own buffer, the slot's words cover every word of posMask and share
\* no bit with any word of negMask; an omitted mask and the words past a
\* mask's length impose no constraint.
C12_MatchIsWordTest ==
  last.op \in MatchOps =>
    ((last.res = "true")
       <=> Matches(BufferOf(last.op), last.id, last.args.pos, last.args.neg))

\* ------------------------------------------------------------------------
\* C13
\* ------------------------------------------------------------------------

\* the sequence of elements an iterateAll iterator hands out when it is
\* consumed to the end
Yields(it) == [k \in 1..it.numResults |-> filteredAt(it, k - 1)]

\* C13: for every stride and every (posMask, negMask), iterateAll yields
\* exactly the slots of 1..maxEntities for which matchCurrent is true at
\* the time of the call, each once and in ascending order.
C13_KernelAgreesWithMatch ==
  last.op = "iterateAll" =>
    Yields(iter) = MatchingSlots(last.args.pos, last.args.neg)

\* ------------------------------------------------------------------------
\* C14, C15
\* ------------------------------------------------------------------------

\* the deferred-flush / lazy-binding contract of an iteration: no flush
\* before the first element, one flush between an element and the one
\* before it, none pending while elements are still to come, and one bind
\* per element produced
FlushContract(it) ==
  /\ (it.produced = 0 /\ ~it.done) => it.pending = 0
  /\ it.produced = 1 => it.gap = 0
  /\ it.produced > 1 => it.gap = 1
  /\ it.pending > 0 => (it.done /\ it.pending = 1)
  /\ it.binds = it.produced

\* C14: while a sequence returned by iterateAll is consumed, flush() is
\* invoked exactly once between consecutive elements and never before the
\* first, and the handle is bound (to the id the kernel stored for the
\* element) only when the element is consumed.
C14_IterateAllFlushContract ==
  iter.kind = "all" =>
    /\ FlushContract(iter)
    /\ (last.op = "next" /\ last.res = "value") =>
         last.id = filteredAt(iter, iter.i)

\* two elements of an iterateAll sequence were consumed
C14_Witness ==
  /\ iter.kind = "all"
  /\ last.op = "next"
  /\ last.res = "value"
  /\ iter.produced = 2
  /\ iter.gap = 1

\* C15: iterate(predicate) obeys the same contract: flush() is invoked
\* between consecutive elements and never before the first, and the handle
\* is bound only when the element is consumed.
C15_IterateFlushContract ==
  iter.kind = "pred" =>
    /\ FlushContract(iter)
    /\ (last.op = "next" /\ last.res = "value") => last.id = iter.id - 1

\* ------------------------------------------------------------------------
\* C16
\* ------------------------------------------------------------------------

\* C16 as stated: every element produced by an iteration (iterateAll or
\* iterate) satisfies the query's match condition on the store as it is when
\* the element is produced, whatever was added, removed or deleted between
\* the elements.
C16_ElementsMatchWhenProduced ==
  (last.op = "next" /\ last.res = "value") =>
    IF iter.kind = "all"
      THEN matchCurrent(last.id, iter.pos, iter.neg)
      ELSE predicate(iter, last.id, current, previous, mutations)

\* C16 amended: every element produced by iterate(predicate) is a slot that
\* satisfies the predicate on the store as it is when the element is
\* produced; the ids an iterateAll sequence hands out are fixed when
\* iterateAll is called and no later call on the store changes them.
C16_PredicateElementsMatch ==
  [][/\ (iter'.kind = "pred" /\ last'.op = "next" /\ last'.res = "value") =>
          /\ last'.id \in Slots
          /\ predicate(iter', last'.id, current', previous', mutations')
     /\ (iter.kind = "all" /\ last'.op \notin {"iterateAll", "iterate"}) =>
          /\ iter'.filtered = iter.filtered
          /\ iter'.numResults = iter.numResults]_vars

\* a second element of an iterate sequence was produced
C16_Witness ==
  /\ iter.kind = "pred"
  /\ last.op = "next"
  /\ last.res = "value"
  /\ iter.produced = 2

\* ------------------------------------------------------------------------
\* C17
\* ------------------------------------------------------------------------

\* C17: after extendMaskAndSetFlag(mask, t) every word the call added below
\* t's word holds the integer 0, the words the mask had are unchanged apart
\* from t's bit, maskHasFlag is true exactly for t and the types it was true
\* for before, and it is false for every type whose word is past the mask's
\* length.
C17_ExtendZeroFillsAndSetsFlag ==
  [][\A t \in MaskTypes :
       ExtendMaskAndSetFlag(t) =>
         LET word == flagOffset(t) + 1
         IN /\ Len(built') = (IF word > Len(built) THEN word ELSE Len(built))
            /\ \A i \in (Len(built) + 1)..(word - 1) : built'[i] = Int32({})
            /\ \A i \in 1..Len(built) : i # word => built'[i] = built[i]
            /\ ToBits(built'[word])
                 = (IF word <= Len(built) THEN ToBits(built[word]) ELSE {})
                     \cup flagMask(t)
            /\ \A u \in Types :
                 maskHasFlag(built', u) <=> (u = t \/ maskHasFlag(built, u))
            /\ \A u \in Types :
                 flagOffset(u) >= Len(built') => ~maskHasFlag(built', u)]_vars

\* ------------------------------------------------------------------------
\* C18
\* ------------------------------------------------------------------------

\* C18: on every take, borrow and reset of a Pool: the objects that take()
\* returned since the last reset() are pairwise distinct; borrow() leaves the
\* cursor alone and returns the object that the next take() returns; the
\* objects taken since the last reset() are, in order, those taken before it;
\* the cursor is at most the length of the list, and the list keeps the
\* objects it had, in their places.
C18_PoolContract ==
  [][last'.op \in PoolOps =>
       LET taken == handed'.taken
           before == handed'.before
       IN /\ \A i, j \in 1..Len(taken) : taken[i] = taken[j] => i = j
          /\ last'.op = "borrow" =>
               /\ pool'.next = pool.next
               /\ handed'.value = take(pool').value
          /\ (last.op = "borrow" /\ last'.op = "take") =>
               handed'.value = handed.value
          /\ \A i \in 1..Len(taken) : i <= Len(before) => taken[i] = before[i]
          /\ pool'.next <= Len(pool'.list)
          /\ Len(pool'.list) >= Len(pool.list)
          /\ \A i \in 1..Len(pool.list) : pool'.list[i] = pool.list[i]]_vars

\* two objects taken, a reset, the same two taken again from a list that has
\* grown past its initial size, and then a borrow
C18_Witness ==
  /\ last.op = "borrow"
  /\ Len(handed.before) >= 2
  /\ Len(handed.taken) >= 2
  /\ Len(pool.list) > MaxInitialSize

\* ------------------------------------------------------------------------
\* C19
\* ------------------------------------------------------------------------

\* the names of the fields of type t that hold an entity reference
RefFieldsOf(t) ==
  {getFields(t)[i].name :
     i \in {j \in 1..Len(getFields(t)) : getFields(t)[j].type = "ref"}}

\* the call recorded that it assigned to field name of (s, t) before it
\* cleared the presence bit (s, t)
AssignedBeforeCleared(log, s, t, name) ==
  \E a, c \in 1..Len(log) :
    /\ a < c
    /\ log[a].op = "assign" /\ log[a].id = s /\ log[a].type = t
    /\ log[a].name = name
    /\ log[c] = Cleared(s, t)

\* C19: when remove(t) or delete() clears the presence bit (s, t) of a
\* component whose type declares entity-reference fields, every such field
\* of (s, t) holds null and was assigned before the bit was cleared; the call
\* assigns to no field that is not an entity reference, so every such field
\* keeps its value.
C19_RefsNulledBeforeBitCleared ==
  [][last'.op \in {"remove", "delete"} =>
       /\ \A s \in Slots, t \in RefTypes :
            (Bit(current, s, t) /\ ~Bit(current', s, t)) =>
              \A name \in RefFieldsOf(t) :
                /\ fieldValues'[<<s, t, name>>] = Null
                /\ AssignedBeforeCleared(effects', s, t, name)
       /\ \A i \in 1..Len(effects') :
            effects'[i].op = "assign" =>
              effects'[i].name \in RefFieldsOf(effects'[i].type)
       /\ \A k \in FieldKeys :
            k[3] \notin RefFieldsOf(k[2]) => fieldValues'[k] = fieldValues[k]
    ]_vars

\* remove() returned true after it assigned null to a field that held a
\* reference, on a component whose number field holds what was written to it
C19_Witness ==
  /\ last.op = "remove"
  /\ last.res = "true"
  /\ \E i \in 1..Len(effects) :
       /\ effects[i].op = "assign"
       /\ effects[i].old = EntityRef(1)
       /\ fieldValues[<<effects[i].id, effects[i].type, "count">>] = Number(1)

\* ------------------------------------------------------------------------
\* C20
\* ------------------------------------------------------------------------

\* the number of times c occurs in seq
Occurrences(seq, c) == Cardinality({k \in 1..Len(seq) : seq[k] = c})

Reversed(seq) == [k \in 1..Len(seq) |-> seq[Len(seq) + 1 - k]]

WaitsOn(a, b) == ~sup.objs[a].done /\ sup.objs[a].blocker = b

\* the last operation was an execute() call, and it has returned
ExecuteReturned ==
  sup.outcome = "returned" /\ last.op \in {"execute", "step"}

\* C21: if coroutine A started coroutine B and waits for B to complete, A
\* resumes within the execute() call in which B finishes: when an execute()
\* call has returned, no unfinished coroutine is still suspended on a
\* coroutine that is finished.
C21_WaiterResumesInSameFrame ==
  ExecuteReturned =>
    \A a, b \in CoroutineIds : WaitsOn(a, b) => ~sup.objs[b].done

\* ------------------------------------------------------------------------
\* C22: cancel() and the CanceledError
\* ------------------------------------------------------------------------

RECURSIVE Deepest(_, _)
\* the coroutine at the end of the chain of coroutines c is waiting on
Deepest(objs, c) ==
  IF objs[c].blocker # 0 THEN Deepest(objs, objs[c].blocker) ELSE c

\* a cancel() call marks the coroutine at the end of the chain, and no other
CancelMarksDeepest ==
  last'.op = "cancel" =>
    LET t == Deepest(sup.objs, last'.id)
    IN /\ sup'.objs[t].error = "canceled"
       /\ sup'.objs[t].done
       /\ \A o \in CoroutineIds \ {t} : sup'.objs[o] = sup.objs[o]

\* C22: cancel() on a coroutine cancels that coroutine or, when it waits on
\* nested coroutines, the most deeply nested one it waits on, and no other;
\* and a CanceledError is thrown inside the generator of the canceled
\* coroutine, at the yield where it stands: once an execute() call has
\* returned, every coroutine that cancel() marked while its generator was
\* unfinished has had a CanceledError passed to its generator.
C22_CancelThrowsInsideCanceled ==
  [][/\ CancelMarksDeepest
     /\ ExecuteReturned' =>
          \A c \in CoroutineIds :
            sup'.objs[c].canceledAt = "yield" =>
              sup'.objs[c].thrown = "canceled"]_vars

\* ------------------------------------------------------------------------
\* C23: waitForFrames
\* ------------------------------------------------------------------------

\* coroutine c is suspended at a yield of waitForFrames(waitN), made in
\* frame waitAt
WaitsForFrames(s, c) == ~s.objs[c].done /\ s.objs[c].frames > 0

\* this step is the __step call of coroutine c
SteppedNow(c) ==
  sup.pc = "step" /\ last'.op = "step" /\ sup.coroutines[sup.i + 1] = c

\* this step is a __step call that resumes the generator of coroutine c
ResumedNow(c) ==
  /\ SteppedNow(c)
  /\ Len(sup'.resumed) = Len(sup.resumed) + 1
  /\ sup'.resumed[Len(sup'.resumed)] = c

\* a coroutine waiting on waitForFrames(n) since frame F is resumed in
\* frame F + n only
ResumedInDueFrameOnly ==
  \A c \in CoroutineIds :
    (WaitsForFrames(sup, c) /\ ResumedNow(c)) =>
      sup'.frame = sup.objs[c].waitAt + sup.objs[c].waitN

\* yield waitForFrames(1) and a yield with no argument are resumed by the
\* next __step call alike
OneFrameLikePlainYield ==
  \A c \in CoroutineIds :
    (/\ SteppedNow(c)
     /\ ~sup.objs[c].done
     /\ \/ sup.objs[c].waitN = 1
        \/ sup.objs[c].frames = 0 /\ sup.objs[c].blocker = 0) =>
      ResumedNow(c)

\* waitForFrames(n) throws exactly when n <= 0, and no coroutine waits on
\* the result of such a call
NonPositiveRejected ==
  /\ \A n \in WaitArgs : waitForFrames(n).rejected <=> n <= 0
  /\ \A c \in CoroutineIds :
       sup'.objs[c].frames > 0 =>
         sup'.objs[c].waitN >= 1 /\ sup'.objs[c].frames <= sup'.objs[c].waitN

\* C23: with one execute() per frame, a coroutine that yields
\* waitForFrames(n), n >= 1, in frame F is next resumed in frame F + n and
\* in no earlier frame: a resumption of a waiting coroutine happens in frame
\* F + n, and when the execute() call of frame F + n has ended the coroutine
\* is no longer waiting. waitForFrames(1) resumes like a yield with no
\* argument, and waitForFrames(n) with n <= 0 is rejected with an error.
C23_WaitForFramesResumesInFramePlusN ==
  [][/\ ResumedInDueFrameOnly
     /\ \A c \in CoroutineIds :
          (sup'.pc = "idle" /\ WaitsForFrames(sup', c)) =>
            sup'.frame < sup'.objs[c].waitAt + sup'.objs[c].waitN
     /\ OneFrameLikePlainYield
     /\ NonPositiveRejected]_vars

\* ------------------------------------------------------------------------
\* C27: no finished coroutine stays in the list
\* ------------------------------------------------------------------------

\* this step ends an execute() call, by a return or by a throw
ExecuteEndsNow == sup'.pc = "idle" /\ last'.op \in {"execute", "step"}

\* this step is a __step call that throws the error of a coroutine which
\* had finished before the call
RethrownNow ==
  /\ sup.pc = "step"
  /\ last'.op = "step"
  /\ sup'.outcome = "threw"
  /\ sup.objs[sup.coroutines[sup.i + 1]].done

\* C27: whenever an execute() call ends, by returning or by throwing, no
\* finished coroutine remains in the supervisor's list; and the error of an
\* unawaited coroutine is raised from execute() in one frame only: no
\* execute() call throws the error of a coroutine that had already
\* finished, so that the coroutines behind it are stepped in later frames.
C27_NoFinishedCoroutineStays ==
  [][/\ ExecuteEndsNow =>
          \A k \in 1..Len(sup'.coroutines) :
            ~sup'.objs[sup'.coroutines[k]].done
     /\ ~RethrownNow]_vars

\* ------------------------------------------------------------------------
\* C24: a failed createEntity
\* ------------------------------------------------------------------------

\* C24: a createEntity call that fails, for whatever reason (capacity, a
\* value where a component type is expected, a type listed twice, a type
\* the caller may not write), leaves current, previous, mutations and the
\* allocation cursor as they were before the call.
C24_FailedCreateChangesNothing ==
  [][(last'.op = "createEntity" /\ last'.res \in Errors) =>
       UNCHANGED <<current, previous, mutations, nextId>>]_vars

\* ------------------------------------------------------------------------
\* C25: no capability error for a declared type
\* ------------------------------------------------------------------------

\* the types attached to slot id
PresentTypes(id) == {t \in UsedTypes : hasFlag(current, id, t)}

\* C25: no operation of the handle fails with a capability error when its
\* type is declared in the mask of its side: has, read and readIfPresent of
\* a type of the read mask, add, remove and write of a type of the write
\* mask (the read mask is not consulted), and delete of a slot whose
\* attached types are all in the write mask.
C25_DeclaredTypeNeverRefused ==
  [][last'.res = "capability" =>
       \A d \in DeclaredSets, id \in Slots :
         /\ \A t \in UsedTypes :
              /\ ~(t \in d[1] /\ ReadSideCall(id, t, MasksOf[d]))
              /\ ~(t \in d[2] /\ WriteSideCall(id, t, MasksOf[d]))
         /\ ~(/\ PresentTypes(id) \subseteq d[2]
              /\ last'.op = "delete"
              /\ Delete(id, MasksOf[d]))]_vars

\* ------------------------------------------------------------------------
\* C26: an iterateAll sequence is a snapshot
\* ------------------------------------------------------------------------

\* C26: the sequence that iterateAll returned yields exactly the slots that
\* matched when iterateAll was called, whatever add, remove, delete,
\* createEntity or step did while it was consumed (no other iterateAll call
\* is made meanwhile: a new call replaces the iteration): each element
\* handed out is the next of those slots, and the sequence ends when all of
\* them were handed out.
C26_IterateAllIsSnapshot ==
  iter.kind = "all" =>
    /\ (last.op = "next" /\ last.res = "value") =>
         /\ iter.produced <= Len(iter.matched)
         /\ last.id = iter.matched[iter.produced]
    /\ iter.done => iter.produced = Len(iter.matched)

====
